---- MODULE Spec2Model ----
(***************************************************************************)
(* Request admission (token-bucket rate limiter, daily token budget) and   *)
(* the chat request flow of secure-enterprise-knowledge-hub.               *)
(*                                                                         *)
(* Time is the value of time.time() in whole seconds.  A bucket's tokens   *)
(* are held in units of 1/Window token (Window = the 60 of the refill      *)
(* formula), so that (elapsed / 60.0) * limit is exact: it adds            *)
(* elapsed * limit units.                                                  *)
(***************************************************************************)
EXTENDS Integers, Sequences, FiniteSets, TLC

VARIABLES now, buckets, budgets, lastCall, allowedAt, resets, ticks,
          providers, llm_enabled, reqs, ledger, gw, environ

vars == <<now, buckets, budgets, lastCall, allowedAt, resets, ticks,
          providers, llm_enabled, reqs, ledger, gw, environ>>

\* The state of the gateway and of the requests in flight.
flowVars == <<providers, llm_enabled, reqs, ledger, gw, environ>>

\* Everything but the gateway call in progress.
appVars == <<now, buckets, budgets, lastCall, allowedAt, resets, ticks,
             llm_enabled, reqs, ledger, environ>>

\* The records kept about the direct calls.
callVars == <<lastCall, allowedAt, resets>>

(* ------------------------------ bounds -------------------------------- *)

\* RATE_LIMIT_PER_MINUTE, the bucket capacity (60 by default).
Capacity == 2

\* The chunks of one provider stream.
MaxFragments == 3

\* TOKEN_BUDGET_DAILY, the daily token limit (100000 by default).
DailyLimit == 4

\* How many times the clock advances in one behaviour.
MaxTicks == 3

\* How many allowed cost-1 checks one behaviour records per principal.
MaxAllowed == 5

\* The largest value of used that record_usage is driven to.
MaxUsed == 6

\* How many fragments a provider stream delivers at most.
MaxChunks == 2

Users == {"alice", "bob"}

\* The principal of the direct calls (buckets and records are per principal).
ApiUsers == {"alice"}

\* Costs handed to check_rate_limit (the endpoint always uses 1).
Costs == {0, 1, 2}

\* Token estimates handed to check_budget, token counts handed to record_usage.
Estimates == {0, 1, 2, 5}
Usages == {0, 1, 3}

\* Word counts of the request message, token totals a provider reports.
Words == {1, 3}
Actuals == {0, 3}

\* Clock advances of the rate limiter's scale and of the budget's scale.
RateSteps == {15, 30, 60}
BudgetSteps == {43200, 86400, 86401}

\* The instants at which chat requests are served: the start, half a window
\* later, and a day after that.
FlowTimes == {0, 30, 86431}

(* ------------------------- program constants -------------------------- *)

Window == 60
Day == 86400
reset_in_seconds == 60

Min(a, b) == IF a <= b THEN a ELSE b

(* ------------------------ InMemoryRateLimiter ------------------------- *)

_get_limit == Capacity

BucketOfEmpty(bs, user_id, t) ==
    IF user_id \in DOMAIN bs THEN bs[user_id]
    ELSE [tokens |-> 0, last_refill |-> t]

\* self._buckets[user_id]: the defaultdict creates a full bucket on first access.
BucketOf(bs, user_id, t) ==
    IF user_id \in DOMAIN bs THEN bs[user_id]
    ELSE [tokens |-> _get_limit * Window, last_refill |-> t]

RefillUncapped(bucket, t) ==
    [tokens |-> bucket.tokens + (t - bucket.last_refill) * _get_limit,
     last_refill |-> t]

_refill_tokens(bucket, t) ==
    [tokens |-> Min(_get_limit * Window,
                    bucket.tokens + (t - bucket.last_refill) * _get_limit),
     last_refill |-> t]

RateInfo(bucket) ==
    [tokens_remaining |-> bucket.tokens \div Window,
     limit |-> _get_limit,
     reset_in_seconds |-> reset_in_seconds]

CheckStaleSnapshot(bucket, t, cost) ==
    LET b == _refill_tokens(bucket, t)
        ok == b.tokens >= cost * Window
        after == IF ok THEN [b EXCEPT !.tokens = bucket.tokens - cost * Window] ELSE b
    IN  [allowed |-> ok, bucket |-> after, info |-> RateInfo(after)]

CheckChargeOnDeny(bucket, t, cost) ==
    LET b == _refill_tokens(bucket, t)
        after == [b EXCEPT !.tokens = @ - cost * Window]
    IN  [allowed |-> b.tokens >= cost * Window, bucket |-> after,
         info |-> RateInfo(after)]

CheckStrictlyGreater(bucket, t, cost) ==
    LET b == _refill_tokens(bucket, t)
        ok == b.tokens > cost * Window
        after == IF ok THEN [b EXCEPT !.tokens = @ - cost * Window] ELSE b
    IN  [allowed |-> ok, bucket |-> after, info |-> RateInfo(after)]

\* check_rate_limit on the principal's bucket: refill, then decide.
check_rate_limit(bucket, t, cost) ==
    LET b == _refill_tokens(bucket, t)
        ok == b.tokens >= cost * Window
        after == IF ok THEN [b EXCEPT !.tokens = @ - cost * Window] ELSE b
    IN  [allowed |-> ok, bucket |-> after, info |-> RateInfo(after)]

PutShared(f, k, v) == [x \in DOMAIN f \cup {k} |-> v]

Put(f, k, v) == [x \in DOMAIN f \cup {k} |-> IF x = k THEN v ELSE f[x]]

(* -------------------------- TokenBudgetManager ------------------------ *)

_get_daily_limit(user_id) == DailyLimit

NewBudget(user_id, t) ==
    [used |-> 0, limit |-> _get_daily_limit(user_id), reset_at |-> t + Day]

\* Lines 168-174 and 211-216: the record is created when the principal is unseen.
EnsureBudget(bs, user_id, t) ==
    IF user_id \in DOMAIN bs THEN bs ELSE Put(bs, user_id, NewBudget(user_id, t))

ResetAtBoundary(budget, t) ==
    IF t >= budget.reset_at THEN [budget EXCEPT !.used = 0, !.reset_at = t + Day]
    ELSE budget

\* Lines 178-181: the reset when the day has passed.
ResetIfDue(budget, t) ==
    IF t > budget.reset_at THEN [budget EXCEPT !.used = 0, !.reset_at = t + Day]
    ELSE budget

BudgetInfo(budget) ==
    [tokens_used_today |-> budget.used,
     tokens_remaining |-> budget.limit - budget.used,
     daily_limit |-> budget.limit]

CheckBudgetBeforeReset(bs, user_id, t, estimated_tokens) ==
    LET b0 == EnsureBudget(bs, user_id, t)
        b == ResetIfDue(b0[user_id], t)
    IN  [allowed |-> b0[user_id].limit - b0[user_id].used >= estimated_tokens,
         budgets |-> Put(b0, user_id, b),
         info |-> BudgetInfo(b),
         created |-> user_id \notin DOMAIN bs,
         reset |-> t > b0[user_id].reset_at]

CheckBudgetIgnoringUsed(bs, user_id, t, estimated_tokens) ==
    LET b0 == EnsureBudget(bs, user_id, t)
        b == ResetIfDue(b0[user_id], t)
    IN  [allowed |-> b.limit >= estimated_tokens,
         budgets |-> Put(b0, user_id, b),
         info |-> BudgetInfo(b),
         created |-> user_id \notin DOMAIN bs,
         reset |-> t > b0[user_id].reset_at]

CheckBudgetReserving(bs, user_id, t, estimated_tokens) ==
    LET b0 == EnsureBudget(bs, user_id, t)
        b == ResetIfDue(b0[user_id], t)
        ok == b.limit - b.used >= estimated_tokens
    IN  [allowed |-> ok,
         budgets |-> Put(b0, user_id,
                         IF ok THEN [b EXCEPT !.used = @ + estimated_tokens] ELSE b),
         info |-> BudgetInfo(b),
         created |-> user_id \notin DOMAIN bs,
         reset |-> t > b0[user_id].reset_at]

check_budget(bs, user_id, t, estimated_tokens) ==
    LET b0 == EnsureBudget(bs, user_id, t)
        b == ResetIfDue(b0[user_id], t)
    IN  [allowed |-> b.limit - b.used >= estimated_tokens,
         budgets |-> Put(b0, user_id, b),
         info |-> BudgetInfo(b),
         created |-> user_id \notin DOMAIN bs,
         reset |-> t > b0[user_id].reset_at]

RecordUsageOverwrite(bs, user_id, t, tokens_used) ==
    LET b0 == EnsureBudget(bs, user_id, t)
    IN  Put(b0, user_id, [b0[user_id] EXCEPT !.used = tokens_used])

RecordUsageCapped(bs, user_id, t, tokens_used) ==
    LET b0 == EnsureBudget(bs, user_id, t)
    IN  Put(b0, user_id, [b0[user_id] EXCEPT !.used = Min(b0[user_id].limit, @ + tokens_used)])

record_usage(bs, user_id, t, tokens_used) ==
    LET b0 == EnsureBudget(bs, user_id, t)
    IN  Put(b0, user_id, [b0[user_id] EXCEPT !.used = @ + tokens_used])

get_usage_stats(bs, user_id) ==
    IF user_id \notin DOMAIN bs
    THEN [tokens_used_today |-> 0,
          tokens_remaining |-> _get_daily_limit(user_id),
          daily_limit |-> _get_daily_limit(user_id)]
    ELSE BudgetInfo(bs[user_id])

UsageStatsCallCreates(bs, user_id, t) ==
    LET b0 == EnsureBudget(bs, user_id, t)
    IN  [info |-> get_usage_stats(b0, user_id), budgets |-> b0]

\* A get_usage_stats call: what it returns and the records it leaves.
UsageStatsCall(bs, user_id, t) ==
    [info |-> get_usage_stats(bs, user_id), budgets |-> bs]

(* ------------------------------- state -------------------------------- *)

NoCall == [op |-> "none", user |-> "none", arg |-> 0, allowed |-> FALSE]

\* Request slots: the chat requests in flight at once.
Reqs == {1, 2}

\* A request slot before chat_endpoint runs.
IdleReq ==
    [pc |-> "idle", user |-> "none", est |-> 0, stream |-> FALSE,
     attempt |-> 0, events |-> <<>>,
     tokens_used |-> 0, recorded |-> <<>>, usage_records |-> 0,
     others |-> 0, out |-> <<>>,
     error |-> "none", response |-> <<>>, audited |-> <<>>]

NoLedger ==
    [balance |-> Capacity * Window, charged |-> 0, rate_ok |-> TRUE,
     budget_ok |-> TRUE]

\* No gateway call in progress.
IdleCall ==
    [pc |-> "idle", op |-> "none", model |-> <<>>, attempt |-> 0,
     log |-> <<>>, calls |-> <<>>, failures |-> <<>>, result |-> <<>>,
     error |-> <<>>, audits |-> 0, produced |-> <<>>, out |-> <<>>,
     arg |-> "None", resolved |-> <<>>, sleeps |-> 0,
     asked |-> [max_tokens |-> <<>>, temperature |-> <<>>],
     passed |-> [max_tokens |-> 0, temperature |-> 0],
     tokens |-> 0, cost |-> 0, usage |-> <<>>, returned |-> <<>>]

Quiet ==
    /\ gw = IdleCall
    /\ now = 0
    /\ buckets = <<>>
    /\ budgets = <<>>
    /\ lastCall = NoCall
    /\ allowedAt = [u \in Users |-> <<>>]
    /\ resets = [u \in Users |-> 0]
    /\ ticks = 0
    /\ reqs = [r \in Reqs |-> IdleReq]
    /\ ledger = [u \in Users |-> NoLedger]

\* The limiter and the budget manager constructed on their own.
Init ==
    /\ Quiet
    /\ environ = {}
    /\ providers = <<>>
    /\ llm_enabled = FALSE

(* ----------------- the limiter, called directly (SpecRate) ------------- *)

CheckRateLimit(u, cost) ==
    LET before == BucketOf(buckets, u, now)
        r == check_rate_limit(before, now, cost)
    IN  /\ (cost = 1 /\ r.allowed) => Len(allowedAt[u]) < MaxAllowed
        /\ buckets' = Put(buckets, u, r.bucket)
        /\ lastCall' = [op |-> "check_rate_limit", user |-> u, arg |-> cost,
                        allowed |-> r.allowed, info |-> r.info,
                        before |-> before, at |-> now]
        /\ allowedAt' = IF cost = 1 /\ r.allowed
                        THEN [allowedAt EXCEPT ![u] = Append(@, now)]
                        ELSE allowedAt
        /\ UNCHANGED <<now, budgets, resets, ticks>>
        /\ UNCHANGED flowVars

RateTick(d) ==
    /\ ticks < MaxTicks
    /\ now' = now + d
    /\ ticks' = ticks + 1
    /\ UNCHANGED <<buckets, budgets, lastCall, allowedAt, resets>>
    /\ UNCHANGED flowVars

NextRate ==
    \/ \E u \in ApiUsers, cost \in Costs : CheckRateLimit(u, cost)
    \/ \E d \in RateSteps : RateTick(d)

SpecRate == Init /\ [][NextRate]_vars

(* -------------- the budget manager, called directly (SpecBudget) -------- *)

BudgetOps == {"check_budget", "record_usage", "get_usage_stats"}

CountReset(u, after) ==
    IF u \in DOMAIN budgets /\ after[u].reset_at # budgets[u].reset_at
    THEN [resets EXCEPT ![u] = @ + 1] ELSE resets

CheckBudget(u, est) ==
    LET r == check_budget(budgets, u, now, est)
    IN  /\ budgets' = r.budgets
        /\ lastCall' = [op |-> "check_budget", user |-> u, arg |-> est,
                        allowed |-> r.allowed, info |-> r.info,
                        before |-> budgets, at |-> now]
        /\ resets' = CountReset(u, r.budgets)
        /\ UNCHANGED <<now, buckets, allowedAt, ticks>>
        /\ UNCHANGED flowVars

RecordUsage(u, n) ==
    LET after == record_usage(budgets, u, now, n)
    IN  /\ after[u].used <= MaxUsed
        /\ budgets' = after
        /\ lastCall' = [op |-> "record_usage", user |-> u, arg |-> n,
                        allowed |-> TRUE, info |-> BudgetInfo(after[u]),
                        before |-> budgets, at |-> now]
        /\ resets' = CountReset(u, after)
        /\ UNCHANGED <<now, buckets, allowedAt, ticks>>
        /\ UNCHANGED flowVars

GetUsageStats(u) ==
    LET r == UsageStatsCall(budgets, u, now)
    IN  /\ lastCall' = [op |-> "get_usage_stats", user |-> u, arg |-> 0,
                        allowed |-> TRUE, info |-> r.info,
                        before |-> budgets, at |-> now]
        /\ budgets' = r.budgets
        /\ UNCHANGED <<now, buckets, allowedAt, resets, ticks>>
        /\ UNCHANGED flowVars

BudgetTick(d) ==
    /\ ticks < MaxTicks
    /\ now' = now + d
    /\ ticks' = ticks + 1
    /\ UNCHANGED <<buckets, budgets, lastCall, allowedAt, resets>>
    /\ UNCHANGED flowVars

NextBudget ==
    \/ \E u \in ApiUsers, est \in Estimates : CheckBudget(u, est)
    \/ \E u \in ApiUsers, n \in Usages : RecordUsage(u, n)
    \/ \E u \in ApiUsers : GetUsageStats(u)
    \/ \E d \in BudgetSteps : BudgetTick(d)

SpecBudget == Init /\ [][NextBudget]_vars

(* ------- limiter and budget manager, two principals (SpecPair) -------- *)

\* The clock reaches t.
PairTick(t) ==
    /\ t > now
    /\ now' = t
    /\ UNCHANGED <<buckets, budgets, lastCall, allowedAt, resets, ticks>>
    /\ UNCHANGED flowVars

\* The calls of two principals in every interleaving.
NextPair ==
    \/ \E u \in Users : CheckRateLimit(u, 2)
    \/ \E u \in Users : CheckBudget(u, 2)
    \/ \E u \in Users : RecordUsage(u, 3)
    \/ \E u \in Users : GetUsageStats(u)
    \/ \E t \in FlowTimes : PairTick(t)

SpecPair == Init /\ [][NextPair]_vars

(* ---- the limiter in binary64, elapsed times of any length (SpecRate64) --- *)

\* SpecRate drives the limiter with elapsed times that are quarters of the
\* window, on which the float arithmetic of _refill_tokens is exact. Here the
\* arithmetic is IEEE 754 binary64, round to nearest, ties to even. A float
\* is <<hi, mid, lo>>, three digits in base 2^20 of its value in units of
\* 2^-58: every float that arises from whole seconds below a few windows is
\* a multiple of 2^-58.

\* The clock stops here.
MaxClock == 60

Base == 2 ^ 20

\* float(n) for a small integer n
F64(n) == <<n * (2 ^ 18), 0, 0>>

\* The digits brought back into 0..Base-1.
Carry(h, m, l) ==
    LET m1 == m + (l \div Base)
    IN  <<h + (m1 \div Base), m1 % Base, l % Base>>

\* The unit in the last place of a float with leading digit h, in units of
\* 2^-58: 1 up to 53 significant bits, doubling with every further bit.
RECURSIVE Ulp(_)
Ulp(h) == IF h < 2 ^ 13 THEN 1 ELSE 2 * Ulp(h \div 2)

\* Rounding of the exact value x + rest/60 units to 53 significant bits.
RoundNearestEven(x, rest) ==
    LET u == Ulp(x[1])
        r == x[3] % u
        low == x[3] - r
        twice == 2 * (r * 60 + rest)
        up == \/ twice > u * 60
              \/ twice = u * 60 /\ (low \div u) % 2 = 1
    IN  Carry(x[1], x[2], low + (IF up THEN u ELSE 0))

\* elapsed / 60.0 for a whole number of seconds: long division, then rounding.
FDiv60(elapsed) ==
    LET a == elapsed * (2 ^ 18)
        r1 == a % 60
        r2 == (r1 * Base) % 60
        r3 == (r2 * Base) % 60
    IN  RoundNearestEven(<<a \div 60, (r1 * Base) \div 60, (r2 * Base) \div 60>>, r3)

\* x * k for a small integer k
FMul(x, k) == RoundNearestEven(Carry(x[1] * k, x[2] * k, x[3] * k), 0)

\* x + y
FAdd(x, y) == RoundNearestEven(Carry(x[1] + y[1], x[2] + y[2], x[3] + y[3]), 0)

\* x >= y
FGe(x, y) ==
    \/ x[1] > y[1]
    \/ x[1] = y[1] /\ x[2] > y[2]
    \/ x[1] = y[1] /\ x[2] = y[2] /\ x[3] >= y[3]

\* x - y for x >= y
FSub(x, y) ==
    LET bl == IF x[3] < y[3] THEN 1 ELSE 0
        bm == IF x[2] - bl < y[2] THEN 1 ELSE 0
    IN  RoundNearestEven(<<x[1] - y[1] - bm,
                           x[2] - bl - y[2] + bm * Base,
                           x[3] - y[3] + bl * Base>>, 0)

\* min(x, y)
FMin(x, y) == IF FGe(y, x) THEN x ELSE y

\* int(x)
FInt(x) == x[1] \div (2 ^ 18)

\* int(os.getenv("RATE_LIMIT_PER_MINUTE", "60"))
LimitOf(env) == CHOOSE v \in 1..60 : <<"RATE_LIMIT_PER_MINUTE", v>> \in env

\* The limits the limiter is run with.
Limits == {1, 2}

\* self._buckets[user_id] in binary64.
Bucket64(bs, user_id, t, limit) ==
    IF user_id \in DOMAIN bs THEN bs[user_id]
    ELSE [tokens |-> F64(limit), last_refill |-> t]

Refill64Uncapped(bucket, t, limit) ==
    [tokens |-> FAdd(bucket.tokens, FMul(FDiv60(t - bucket.last_refill), limit)),
     last_refill |-> t]

\* _refill_tokens in binary64.
Refill64(bucket, t, limit) ==
    [tokens |-> FMin(F64(limit),
                     FAdd(bucket.tokens,
                          FMul(FDiv60(t - bucket.last_refill), limit))),
     last_refill |-> t]

\* check_rate_limit in binary64.
Check64(bucket, t, cost, limit) ==
    LET b == Refill64(bucket, t, limit)
        ok == FGe(b.tokens, F64(cost))
        after == IF ok THEN [b EXCEPT !.tokens = FSub(@, F64(cost))] ELSE b
    IN  [allowed |-> ok, bucket |-> after, refilled |-> b,
         info |-> [tokens_remaining |-> FInt(after.tokens), limit |-> limit,
                   reset_in_seconds |-> reset_in_seconds]]

\* The limiter constructed under a given RATE_LIMIT_PER_MINUTE.
InitRate64 ==
    /\ Quiet
    /\ \E limit \in Limits : environ = {<<"RATE_LIMIT_PER_MINUTE", limit>>}
    /\ providers = <<>>
    /\ llm_enabled = FALSE

\* check_rate_limit(u) with the default cost. The call record keeps the
\* bucket before the call and as refilled, the time of the first denial of
\* the current run of denials (before and after the call), and the bucket as
\* the last allowed check (or the creation) left it (before and after).
CheckRateLimit64(u) ==
    LET limit == LimitOf(environ)
        before == Bucket64(buckets, u, now, limit)
        r == Check64(before, now, 1, limit)
        first == lastCall.op = "none"
        denied_before == IF first THEN <<>> ELSE lastCall.denied_since
        anchor_before == IF first THEN before ELSE lastCall.anchor
    IN  /\ buckets' = Put(buckets, u, r.bucket)
        /\ lastCall' = [op |-> "check_rate_limit", user |-> u, arg |-> 1,
                        allowed |-> r.allowed, info |-> r.info,
                        before |-> before, at |-> now,
                        refilled |-> r.refilled,
                        denied_before |-> denied_before,
                        denied_since |-> IF r.allowed THEN <<>>
                                         ELSE IF denied_before # <<>>
                                              THEN denied_before
                                         ELSE <<now>>,
                        anchor_before |-> anchor_before,
                        anchor |-> IF r.allowed THEN r.bucket ELSE anchor_before]
        /\ UNCHANGED <<now, budgets, allowedAt, resets, ticks>>
        /\ UNCHANGED flowVars

\* Clock advances: sixths and halves of the window.
Steps64 == {10, 30}

Tick64(d) ==
    /\ now + d <= MaxClock
    /\ now' = now + d
    /\ UNCHANGED <<buckets, budgets, lastCall, allowedAt, resets, ticks>>
    /\ UNCHANGED flowVars

NextRate64 ==
    \/ \E u \in ApiUsers : CheckRateLimit64(u)
    \/ \E d \in Steps64 : Tick64(d)

SpecRate64 == InitRate64 /\ [][NextRate64]_vars

(* ------------------- LLMGateway and the chat endpoint ------------------ *)

Credentials ==
    {"AZURE_OPENAI_API_KEY", "AZURE_OPENAI_ENDPOINT", "AWS_ACCESS_KEY_ID",
     "AWS_SECRET_ACCESS_KEY", "GCP_PROJECT_ID"}

InitProvidersAnyCredential(config) ==
    (IF {"AZURE_OPENAI_API_KEY", "AZURE_OPENAI_ENDPOINT"} \cap config # {}
     THEN <<"azure">> ELSE <<>>)
    \o (IF {"AWS_ACCESS_KEY_ID", "AWS_SECRET_ACCESS_KEY"} \cap config # {}
        THEN <<"bedrock">> ELSE <<>>)
    \o (IF "GCP_PROJECT_ID" \in config THEN <<"vertex">> ELSE <<>>)

\* The providers whose credentials are all set, in priority order.
_initialize_providers(config) ==
    (IF {"AZURE_OPENAI_API_KEY", "AZURE_OPENAI_ENDPOINT"} \subseteq config
     THEN <<"azure">> ELSE <<>>)
    \o (IF {"AWS_ACCESS_KEY_ID", "AWS_SECRET_ACCESS_KEY"} \subseteq config
        THEN <<"bedrock">> ELSE <<>>)
    \o (IF "GCP_PROJECT_ID" \in config THEN <<"vertex">> ELSE <<>>)

\* The exceptions of acompletion, one per except clause of complete().
Failures == {"RateLimitError", "Timeout", "Exception"}

\* The credential sets the application is started with.
FlowConfigs ==
    {{},
     {"AZURE_OPENAI_API_KEY", "AZURE_OPENAI_ENDPOINT"},
     {"AZURE_OPENAI_API_KEY", "AZURE_OPENAI_ENDPOINT", "AWS_ACCESS_KEY_ID",
      "GCP_PROJECT_ID"}}

\* The application started: LLM_ENABLED read; get_gateway() builds the gateway
\* only when it is true.
InitFlow ==
    /\ Quiet
    /\ llm_enabled \in BOOLEAN
    /\ IF llm_enabled
       THEN \E config \in FlowConfigs :
               environ = config /\ providers = _initialize_providers(config)
       ELSE environ = {} /\ providers = <<>>

\* estimated_tokens = len(payload.message.split()) * 2
EstimateTokens(words) == words * 2

AdmissionNoBudgetGate(bk, bs, user_id, t, estimated_tokens) ==
    LET rl == check_rate_limit(BucketOf(bk, user_id, t), t, 1)
        bc == check_budget(bs, user_id, t, estimated_tokens)
    IN  IF ~rl.allowed
        THEN [outcome |-> "rate_limited", buckets |-> Put(bk, user_id, rl.bucket),
              budgets |-> bs, events |-> <<"rate_denied">>]
        ELSE [outcome |-> "admitted", buckets |-> Put(bk, user_id, rl.bucket),
              budgets |-> bc.budgets,
              events |-> <<"rate_ok",
                           IF bc.allowed THEN "budget_ok" ELSE "budget_denied">>]

\* Steps 1 and 2 of chat_endpoint: the rate check, then the budget check.
Admission(bk, bs, user_id, t, estimated_tokens) ==
    LET rl == check_rate_limit(BucketOf(bk, user_id, t), t, 1)
        bc == check_budget(bs, user_id, t, estimated_tokens)
    IN  IF ~rl.allowed
        THEN [outcome |-> "rate_limited", buckets |-> Put(bk, user_id, rl.bucket),
              budgets |-> bs, events |-> <<"rate_denied">>]
        ELSE [outcome |-> IF bc.allowed THEN "admitted" ELSE "budget_exceeded",
              buckets |-> Put(bk, user_id, rl.bucket),
              budgets |-> bc.budgets,
              events |-> <<"rate_ok",
                           IF bc.allowed THEN "budget_ok" ELSE "budget_denied">>]

AfterCompleteChargeAlways(bs, user_id, t, ok, tokens_used) ==
    [budgets |-> record_usage(bs, user_id, t, tokens_used), calls |-> <<tokens_used>>]

\* chat_endpoint after gateway.complete: record_usage on success, the 503 on
\* failure. calls lists the record_usage calls made.
AfterComplete(bs, user_id, t, ok, tokens_used) ==
    IF ok
    THEN [budgets |-> record_usage(bs, user_id, t, tokens_used),
          calls |-> <<tokens_used>>]
    ELSE [budgets |-> bs, calls |-> <<>>]

Terminal ==
    {"rate_limited", "budget_exceeded", "unavailable", "completed",
     "stream_done", "stream_failed"}

\* What a step did to the principal's budget record.
TouchKind(bs, after, user_id, t) ==
    IF user_id \notin DOMAIN after THEN "none"
    ELSE IF user_id \notin DOMAIN bs THEN "created"
    ELSE IF after[user_id] = bs[user_id] THEN "none"
    ELSE IF after[user_id] = [bs[user_id] EXCEPT !.used = 0, !.reset_at = t + Day]
         THEN "reset"
    ELSE IF /\ after[user_id].used >= bs[user_id].used
            /\ after[user_id] = [bs[user_id] EXCEPT !.used = after[user_id].used]
         THEN "charged"
    ELSE "other"

\* What a step took from the principal's bucket, the refill set aside.
TokensTaken(bk, after, user_id, t) ==
    IF user_id \notin DOMAIN after THEN 0
    ELSE _refill_tokens(BucketOf(bk, user_id, t), t).tokens - after[user_id].tokens

\* A step of request r: the request as the step leaves it, and what the step
\* did to the principal's bucket and budget record.
Step(op, r, rec, bk, bs) ==
    [op |-> op, user |-> rec.user, arg |-> r, allowed |-> TRUE, req |-> rec,
     took |-> IF bk = buckets THEN 0 ELSE TokensTaken(buckets, bk, rec.user, now),
     touch |-> TouchKind(budgets, bs, rec.user, now)]

\* Once the response is sent the slot serves the next request.
Settle(rec) == IF rec.pc \in Terminal THEN IdleReq ELSE rec

\* The calls of one principal replayed one after the other, in the order in
\* which they took effect: what a serial execution leaves in the bucket
\* (balance) and in the budget record (charged), and what it answers.
Replayed(u, est, rate_checked, budget_checked) ==
    LET l == ledger[u]
        filled == IF u \in DOMAIN buckets
                  THEN Min(Capacity * Window,
                           l.balance + (now - buckets[u].last_refill) * Capacity)
                  ELSE Capacity * Window
        rate_ok == filled >= Window
        due == u \notin DOMAIN budgets \/ now > budgets[u].reset_at
        used == IF due THEN 0 ELSE l.charged
    IN  [ledger EXCEPT ![u] =
           [balance |-> IF ~rate_checked THEN l.balance
                        ELSE IF rate_ok THEN filled - Window ELSE filled,
            charged |-> IF budget_checked THEN used ELSE l.charged,
            rate_ok |-> rate_ok,
            budget_ok |-> DailyLimit - used >= est]]

\* The HTTPException of a denied admission, the ChatResponse of a completed
\* request.
Rejected(outcome) ==
    [status |-> 429,
     error |-> IF outcome = "rate_limited" THEN "rate_limit_exceeded"
               ELSE "token_budget_exceeded"]
Completed == [status |-> 202, error |-> "none"]

LlmUnavailableByType(error) ==
    IF error = "RateLimitError"
    THEN [status |-> 429, error |-> "rate_limit_exceeded"]
    ELSE [status |-> 503, error |-> "llm_unavailable"]

\* chat_endpoint's except clause: whatever complete() raised becomes the 503.
LlmUnavailable(error) == [status |-> 503, error |-> "llm_unavailable"]

\* chat_endpoint up to its first await: admission, then the mock reply, the
\* StreamingResponse, or gateway.complete up to the first acompletion.
ChatEndpoint(r, u, words, stream) ==
    LET est == EstimateTokens(words)
        a == Admission(buckets, budgets, u, now, est)
        next == IF a.outcome # "admitted" THEN a.outcome
                ELSE IF stream /\ llm_enabled THEN "stream_pending"
                ELSE IF ~llm_enabled THEN "completed"
                ELSE IF providers = <<>> THEN "unavailable"
                ELSE "calling"
        rec == [IdleReq EXCEPT
                  !.pc = next, !.user = u, !.est = est, !.stream = stream,
                  !.attempt = IF next = "calling" THEN 1 ELSE 0,
                  !.events = IF next = "calling" THEN a.events \o <<"call">>
                             ELSE a.events,
                  !.error = IF next = "unavailable" THEN "ServiceUnavailableError"
                            ELSE "none",
                  !.response =
                      IF next \in {"rate_limited", "budget_exceeded"}
                      THEN <<Rejected(next)>>
                      ELSE IF next = "unavailable"
                      THEN <<LlmUnavailable("ServiceUnavailableError")>>
                      ELSE IF next = "completed" THEN <<Completed>>
                      ELSE <<>>,
                  !.audited = IF next = "completed" THEN <<"completed">> ELSE <<>>]
    IN  /\ reqs[r].pc = "idle"
        /\ \A q \in Reqs : q < r => reqs[q].pc # "idle"
        /\ buckets' = a.buckets
        /\ budgets' = a.budgets
        /\ reqs' = [reqs EXCEPT ![r] = Settle(rec)]
        /\ lastCall' = Step("chat_endpoint", r, rec, a.buckets, a.budgets)
        /\ ledger' = Replayed(u, est, TRUE, Len(a.events) > 1)
        /\ UNCHANGED <<now, ticks, providers, llm_enabled, gw, environ, allowedAt, resets>>

InFlight(q) == reqs[q].pc \in {"calling", "retry_delay"}

\* acompletion returns a response: _parse_response, log_performance,
\* audit_model_usage, return; then chat_endpoint records the usage.
ProviderSucceeds(r, tokens) ==
    LET u == reqs[r].user
        done == AfterComplete(budgets, u, now, TRUE, tokens)
        after == done.budgets
        rec == [reqs[r] EXCEPT
                  !.pc = "completed",
                  !.events = @ \o <<"ok">>,
                  !.tokens_used = tokens,
                  !.usage_records = @ + 1,
                  !.recorded = @ \o done.calls,
                  !.response = <<Completed>>,
                  !.audited = <<"completed">>]
    IN  /\ reqs[r].pc = "calling"
        /\ budgets[u].used + tokens <= MaxUsed
        /\ budgets' = after
        /\ reqs' = [q \in Reqs |->
              IF q = r THEN Settle(rec)
              ELSE IF InFlight(q) /\ reqs[q].user = u
                   THEN [reqs[q] EXCEPT !.others = @ + after[u].used - budgets[u].used]
              ELSE reqs[q]]
        /\ lastCall' = Step("provider_succeeds", r, rec, buckets, after)
        /\ ledger' = [ledger EXCEPT ![u].charged = @ + tokens]
        /\ UNCHANGED <<now, ticks, buckets, providers, llm_enabled, gw, environ, allowedAt, resets>>

\* acompletion raises: the except clause logs, then sleeps before the next
\* provider or re-raises after the last one (chat_endpoint answers 503).
ProviderFails(r, error) ==
    LET u == reqs[r].user
        last == ~(reqs[r].attempt < Len(providers))
        done == IF last THEN AfterComplete(budgets, u, now, FALSE, reqs[r].est)
                ELSE [budgets |-> budgets, calls |-> <<>>]
        after == done.budgets
        rec == [reqs[r] EXCEPT
                  !.pc = IF last THEN "unavailable" ELSE "retry_delay",
                  !.events = @ \o <<"fail">>,
                  !.recorded = @ \o done.calls,
                  !.error = IF last THEN error ELSE "none",
                  !.response = IF last THEN <<LlmUnavailable(error)>> ELSE <<>>]
    IN  /\ reqs[r].pc = "calling"
        /\ budgets' = after
        /\ reqs' = [reqs EXCEPT ![r] = Settle(rec)]
        /\ lastCall' = Step("provider_fails", r, rec, buckets, after)
        /\ UNCHANGED <<now, ticks, buckets, providers, llm_enabled, gw, environ, ledger,
                       allowedAt, resets>>

\* A step of request r that touches only the request: rec is how it leaves it.
Advance(op, r, from, rec) ==
    /\ reqs[r].pc = from
    /\ reqs' = [reqs EXCEPT ![r] = Settle(rec)]
    /\ lastCall' = Step(op, r, rec, buckets, budgets)
    /\ UNCHANGED <<now, ticks, buckets, budgets, providers, llm_enabled, gw, environ, ledger,
                   allowedAt, resets>>

\* asyncio.sleep(RETRY_DELAY) is over: the loop calls the next provider.
RetryNext(r) ==
    Advance("retry", r, "retry_delay",
            [reqs[r] EXCEPT !.pc = "calling", !.attempt = @ + 1,
                            !.events = @ \o <<"call">>])

\* _stream_response starts: stream_complete calls acompletion(stream=True)
\* on the first provider.
StreamStart(r) ==
    Advance("stream_start", r, "stream_pending",
            [reqs[r] EXCEPT !.pc = "streaming", !.attempt = 1,
                            !.events = @ \o <<"call">>])

\* The provider stream delivers a chunk with content: it is relayed.
StreamChunk(r) ==
    /\ Len(reqs[r].out) < MaxChunks
    /\ Advance("stream_chunk", r, "streaming",
               [reqs[r] EXCEPT !.out = Append(@, "chunk")])

\* The provider stream ends: the end-of-stream marker is sent.
StreamEnd(r) ==
    Advance("stream_end", r, "streaming",
            [reqs[r] EXCEPT !.pc = "stream_done", !.events = @ \o <<"ok">>,
                            !.out = Append(@, "[DONE]")])

\* acompletion or the provider stream raises: the error marker is sent.
StreamFails(r, error) ==
    Advance("stream_fails", r, "streaming",
            [reqs[r] EXCEPT !.pc = "stream_failed", !.events = @ \o <<"fail">>,
                            !.out = Append(@, "stream_failed")])

FlowTick(t) ==
    /\ t > now
    /\ now' = t
    /\ UNCHANGED <<ticks, buckets, budgets, providers, llm_enabled, gw, environ, reqs, ledger>>
    /\ UNCHANGED callVars

NextFlow ==
    \/ \E r \in Reqs, u \in ApiUsers, w \in Words, st \in BOOLEAN : ChatEndpoint(r, u, w, st)
    \/ \E r \in Reqs, n \in Actuals : ProviderSucceeds(r, n)
    \/ \E r \in Reqs, e \in Failures : ProviderFails(r, e)
    \/ \E r \in Reqs : RetryNext(r)
    \/ \E r \in Reqs : StreamStart(r)
    \/ \E r \in Reqs : StreamChunk(r)
    \/ \E r \in Reqs : StreamEnd(r)
    \/ \E r \in Reqs, e \in Failures : StreamFails(r, e)
    \/ \E t \in FlowTimes : FlowTick(t)

SpecFlow == InitFlow /\ [][NextFlow]_vars

(* ------------------------------ claims -------------------------------- *)

AllowedSpan(u, i, j) == allowedAt[u][j] - allowedAt[u][i]

\* C1 (as stated): among the cost-1 checks of one principal whose call times
\* lie within one 60 s window, at most Capacity are allowed.
C1_AtMostCapacityPerWindow ==
    \A u \in Users : \A i, j \in 1..Len(allowedAt[u]) :
        (i <= j /\ AllowedSpan(u, i, j) < Window) => j - i + 1 <= Capacity

\* C1 (amended): the cost-1 checks of one principal allowed within a span of
\* d seconds number at most Capacity + Capacity * d / 60: the full bucket plus
\* what the refill adds during the span.
C1_BurstPlusRefill ==
    \A u \in Users : \A i, j \in 1..Len(allowedAt[u]) :
        i <= j => Window * (j - i + 1) <= Window * Capacity + Capacity * AllowedSpan(u, i, j)

\* More than Capacity checks allowed inside one window, the bound reached.
C1_Witness ==
    \E u \in Users : \E i, j \in 1..Len(allowedAt[u]) :
        /\ i < j
        /\ AllowedSpan(u, i, j) > 0
        /\ AllowedSpan(u, i, j) < Window
        /\ j - i + 1 > Capacity
        /\ Window * (j - i + 1) = Window * Capacity + Capacity * AllowedSpan(u, i, j)

\* C3: every bucket holds between 0 and capacity tokens, in every state.
C3_TokensWithinCapacity ==
    \A u \in DOMAIN buckets :
        /\ 0 <= buckets[u].tokens
        /\ buckets[u].tokens <= Capacity * Window

\* A check on a drained bucket after more than a window of idleness.
C3_Witness ==
    /\ lastCall.op = "check_rate_limit"
    /\ lastCall.before.tokens < Window
    /\ lastCall.at - lastCall.before.last_refill > Window
    /\ buckets[lastCall.user].tokens = Capacity * Window

LastUser == lastCall.user
LastSeen == LastUser \in DOMAIN lastCall.before
LastDue == LastSeen /\ lastCall.at > lastCall.before[LastUser].reset_at

\* C4 (as stated): the first access of any kind (check_budget, record_usage,
\* get_usage_stats) after the 24h boundary performs the reset.
C4_ResetOnAnyAccess ==
    (lastCall.op \in BudgetOps /\ LastDue)
        => budgets[LastUser].reset_at = lastCall.at + Day

\* C4 (amended): a reset (used = 0, reset_at = now + 24h) happens on, and only
\* on, a check_budget made after the boundary; record_usage and get_usage_stats
\* never reset, no other call sets used to 0, and there is at most one reset
\* per elapsed 24h.
C4_ResetOnCheckBudgetOnly ==
    /\ (lastCall.op \in BudgetOps /\ LastSeen) =>
          LET b0 == lastCall.before[LastUser]
              b == budgets[LastUser]
          IN  IF lastCall.op = "check_budget" /\ lastCall.at > b0.reset_at
              THEN b.used = 0 /\ b.reset_at = lastCall.at + Day
              ELSE /\ b.reset_at = b0.reset_at
                   /\ b.used = b0.used + (IF lastCall.op = "record_usage"
                                          THEN lastCall.arg ELSE 0)
    /\ \A u \in DOMAIN budgets :
          budgets[u].reset_at >= (resets[u] + 1) * Day

\* A check_budget after the boundary that wipes a non-zero used.
C4_Witness ==
    /\ lastCall.op = "check_budget"
    /\ LastDue
    /\ lastCall.before[LastUser].used > 0
    /\ budgets[LastUser].used = 0
    /\ resets[LastUser] = 1

\* C5: check_budget creates the record if the principal is unseen, resets it
\* if the boundary has passed, and allows iff limit - used >= estimated_tokens
\* on the value of used after the reset.
C5_DecisionAfterReset ==
    lastCall.op = "check_budget" =>
        LET b == budgets[LastUser]
        IN  /\ lastCall.allowed <=> (b.limit - b.used >= lastCall.arg)
            /\ ~LastSeen =>
                  /\ b = [used |-> 0, limit |-> DailyLimit,
                          reset_at |-> lastCall.at + Day]
                  /\ lastCall.allowed <=> (lastCall.arg <= DailyLimit)
            /\ LastDue => b.used = 0 /\ b.reset_at = lastCall.at + Day
            /\ (LastSeen /\ ~LastDue) => b = lastCall.before[LastUser]
            /\ (b.used >= b.limit /\ lastCall.arg >= 1) => ~lastCall.allowed

\* An exhausted principal is allowed again by the check that resets it.
C5_Witness ==
    /\ lastCall.op = "check_budget"
    /\ LastDue
    /\ lastCall.before[LastUser].used >= lastCall.before[LastUser].limit
    /\ lastCall.arg >= 1
    /\ lastCall.allowed

(* ---------------------- claims about the request flow ------------------ *)

FlowOps ==
    {"chat_endpoint", "provider_succeeds", "provider_fails", "retry",
     "stream_start", "stream_chunk", "stream_end", "stream_fails"}

IsFlowStep == lastCall.op \in FlowOps
LastReq == lastCall.req
Denied == {"rate_limited", "budget_exceeded"}

C6_OverdrawWithinDelta ==
    lastCall.op = "provider_succeeds" =>
        budgets[LastUser].used - budgets[LastUser].limit
            <= LastReq.tokens_used - LastReq.est

\* C6 (amended): when an admitted request records its usage, used exceeds
\* limit by at most actual_tokens - estimated_tokens plus the tokens recorded
\* for the same principal by other requests since this request's check_budget.
C6_OverdrawWithinDeltaAndOthers ==
    lastCall.op = "provider_succeeds" =>
        budgets[LastUser].used - budgets[LastUser].limit
            <= LastReq.tokens_used - LastReq.est + LastReq.others

\* A request records after another one admitted alongside it has recorded,
\* and the overdraw is larger than its own delta.
C6_Witness ==
    /\ lastCall.op = "provider_succeeds"
    /\ LastReq.others > 0
    /\ budgets[LastUser].used - budgets[LastUser].limit
           > LastReq.tokens_used - LastReq.est

\* C7 (as stated): a request that is denied admission, or whose provider
\* attempts all fail, leaves the budget record exactly as it was.
C7_FailedRequestLeavesRecord ==
    (lastCall.op = "chat_endpoint"
       /\ LastReq.pc \in {"rate_limited", "budget_exceeded", "unavailable"})
        => lastCall.touch = "none"

\* C7 (amended): record_usage is called only after gateway.complete returned
\* a result; a request that is denied or whose providers all fail never calls
\* it, and the only change such a request makes to the budget record is the
\* lazy creation or the 24h reset done by its check_budget (a rate-limited
\* request makes none).
C7_RecordOnlyAfterSuccess ==
    IsFlowStep =>
        /\ lastCall.touch # "none" =>
              \/ /\ lastCall.op = "chat_endpoint"
                 /\ lastCall.touch \in {"created", "reset"}
                 /\ LastReq.events[1] = "rate_ok"
              \/ /\ lastCall.op = "provider_succeeds"
                 /\ lastCall.touch = "charged"
        /\ LastReq.recorded # <<>> =>
              /\ lastCall.op = "provider_succeeds"
              /\ LastReq.pc = "completed"
              /\ LastReq.events[Len(LastReq.events)] = "ok"
        /\ LastReq.pc \in {"rate_limited", "budget_exceeded", "unavailable",
                            "stream_failed"} => LastReq.recorded = <<>>

\* The last of two providers fails for a principal whose record holds usage.
C7_Witness ==
    /\ lastCall.op = "provider_fails"
    /\ LastReq.pc = "unavailable"
    /\ LastReq.attempt = 2
    /\ budgets[LastUser].used > 0

\* C8: a request whose provider completion succeeds, streaming or not, makes
\* exactly one record_usage call with the reported token count and emits
\* exactly one final usage record.
C8_OneRecordPerSuccess ==
    (IsFlowStep /\ LastReq.pc \in {"completed", "stream_done"}
       /\ LastReq.events[Len(LastReq.events)] = "ok")
        => /\ LastReq.recorded = <<LastReq.tokens_used>>
           /\ LastReq.usage_records = 1

OrderOK(ev) ==
    \A k \in 1..Len(ev) :
        /\ ev[k] = "call" => (k >= 3 /\ ev[1] = "rate_ok" /\ ev[2] = "budget_ok")
        /\ ev[k] \in {"budget_ok", "budget_denied"} => (k = 2 /\ ev[1] = "rate_ok")
        /\ ev[k] \in {"rate_ok", "rate_denied"} => k = 1

\* C9: in every request the rate check comes first, the budget check second
\* and only after an allowed rate check, and a provider call only after both
\* were allowed.
C9_AdmissionBeforeProvider ==
    /\ \A r \in Reqs : OrderOK(reqs[r].events)
    /\ IsFlowStep =>
          /\ OrderOK(LastReq.events)
          /\ LastReq.pc \in Denied =>
                \A k \in 1..Len(LastReq.events) : LastReq.events[k] # "call"

\* A request is denied by the budget check while another one is at a provider.
C9_Witness ==
    /\ lastCall.op = "chat_endpoint"
    /\ LastReq.pc = "budget_exceeded"
    /\ LastReq.events = <<"rate_ok", "budget_denied">>
    /\ \E r \in Reqs : reqs[r].pc = "calling" /\ reqs[r].attempt = 2

\* C10 (as stated): a request denied admission leaves the bucket's tokens
\* (apart from the refill) and the budget record as they were.
C10_DenialHasNoEffect ==
    (lastCall.op = "chat_endpoint" /\ LastReq.pc \in Denied)
        => (lastCall.took = 0 /\ lastCall.touch = "none")

\* C10 (amended): a rate_limited denial leaves the bucket at its refilled
\* value and the budget record untouched; a budget_exceeded denial has spent
\* one rate token, which is not returned, and its check_budget may have
\* created or reset the budget record, but no usage is recorded.
C10_DenialEffects ==
    lastCall.op = "chat_endpoint" =>
        /\ LastReq.pc = "rate_limited" =>
              (lastCall.took = 0 /\ lastCall.touch = "none")
        /\ LastReq.pc = "budget_exceeded" =>
              /\ lastCall.took = Window
              /\ lastCall.touch \in {"none", "created", "reset"}
              /\ LastReq.recorded = <<>>

\* A request denied by the budget check after its check_budget did the reset.
C10_Witness ==
    /\ lastCall.op = "chat_endpoint"
    /\ LastReq.pc = "budget_exceeded"
    /\ lastCall.took = Window
    /\ lastCall.touch = "reset"

(* ------------------------ LLMGateway (SpecGateway) --------------------- *)

\* A string whose characters matter is kept as the sequence of its pieces,
\* the "/" a piece of its own: "custom/foo" is <<"custom", "/", "foo">>.
Slash == "/"

\* "/" in model
HasSlash(str) == \E i \in 1..Len(str) : str[i] = Slash

\* The values Python takes as false where a provider name is expected.
Falsy == {"None", ""}

ProviderNames == {"azure", "bedrock", "vertex"}

\* LLMConfig.DEFAULT_MODEL
DEFAULT_MODEL == <<"gpt-4">>

\* The alias table of _get_model_string.
provider_models ==
    [p \in ProviderNames |->
       IF p = "azure"
       THEN (<<"gpt-4">> :> <<"azure", "/", "gpt-4">>)
            @@ (<<"gpt-4o">> :> <<"azure", "/", "gpt-4o">>)
            @@ (<<"gpt-3.5-turbo">> :> <<"azure", "/", "gpt-35-turbo">>)
       ELSE IF p = "bedrock"
       THEN (<<"claude-2">> :> <<"bedrock", "/", "anthropic.claude-v2">>)
            @@ (<<"claude-instant">> :> <<"bedrock", "/", "anthropic.claude-instant-v1">>)
            @@ (<<"llama-2">> :> <<"bedrock", "/", "meta.llama2-70b-chat-v1">>)
       ELSE (<<"gemini-pro">> :> <<"vertex_ai", "/", "gemini-pro">>)
            @@ (<<"palm-2">> :> <<"vertex_ai", "/", "chat-bison">>)]

GetModelStringNoSlashTest(ps, model, provider) ==
    LET p == IF provider \in Falsy
             THEN (IF ps # <<>> THEN ps[1] ELSE "azure") ELSE provider
        table == IF p \in DOMAIN provider_models THEN provider_models[p] ELSE <<>>
    IN  IF model \in DOMAIN table THEN table[model] ELSE <<p, Slash>> \o model

\* _get_model_string(model, provider) of a gateway whose providers are ps.
_get_model_string(ps, model, provider) ==
    IF HasSlash(model) THEN model
    ELSE LET p == IF provider \in Falsy
                  THEN (IF ps # <<>> THEN ps[1] ELSE "azure") ELSE provider
             table == IF p \in DOMAIN provider_models
                      THEN provider_models[p] ELSE <<>>
         IN  IF model \in DOMAIN table THEN table[model]
             ELSE <<p, Slash>> \o model

\* model = model or self.config.DEFAULT_MODEL
ModelOrDefault(model) == IF model = <<>> THEN DEFAULT_MODEL ELSE model

\* The exceptions acompletion raises, by the except clause that takes them;
\* ValueError stands for any exception outside the first two clauses.
ErrorKinds ==
    {"RateLimitError", "ServiceUnavailableError", "Timeout", "APIError",
     "ValueError"}

\* The log event of the except clause that handles an exception.
ExceptEvent(kind) ==
    IF kind = "RateLimitError" THEN "llm_rate_limit"
    ELSE IF kind \in {"ServiceUnavailableError", "Timeout", "APIError"}
         THEN "llm_provider_error"
    ELSE "llm_unexpected_error"

\* An exception as the provider call raised it.
Raised(kind, provider) ==
    [type |-> kind, message |-> "provider error", from |-> provider]

\* str(e) of an exception of the provider call; str(None) is "None".
StrOf(e) == IF e = <<>> THEN "None" ELSE e[1].type

\* raise ServiceUnavailableError(f"All LLM providers failed. Last error: ...")
\* with last_error already formatted.
AllFailed(last_error) ==
    [type |-> "ServiceUnavailableError", message |-> "All LLM providers failed",
     from |-> last_error]

ProviderAtFirst(ps, attempt) == ps[1]

\* enumerate(self.providers, 1): the provider of an attempt.
ProviderAt(ps, attempt) == ps[attempt]

NextAttemptSame(attempt) == attempt

\* The loop moves to the next pair of enumerate.
NextAttempt(attempt) == attempt + 1

OnFailureRaiseFirst(kind, attempt, n) ==
    [event |-> ExceptEvent(kind), sleep |-> FALSE, retry |-> FALSE]

OnFailureSleepAlways(kind, attempt, n) ==
    [event |-> ExceptEvent(kind), sleep |-> TRUE, retry |-> attempt < n]

\* An except clause: log, then sleep and continue when providers remain,
\* re-raise otherwise.
OnFailure(kind, attempt, n) ==
    [event |-> ExceptEvent(kind), sleep |-> attempt < n, retry |-> attempt < n]

AfterLoopReturnsNone(last_error) ==
    [pc |-> "success", result |-> <<"None">>, error |-> <<>>]

\* The statement after the loop.
AfterLoop(last_error) ==
    [pc |-> "exhausted", result |-> <<>>, error |-> <<AllFailed(last_error)>>]

\* What acompletion returns: the model that answered, the usage it reports
\* and the number of choices (none in a malformed response).
Responses(model_string) ==
    [model : {model_string}, total_tokens : {0, 3}, choices : {0, 1}]

\* _parse_response: the standardized result (response.choices[0] raises
\* IndexError on a response without choices).
_parse_response(response, provider) ==
    [content |-> <<"content of", response.model>>, model |-> response.model,
     provider |-> provider, tokens_used |-> response.total_tokens]

\* cost_per_1k: the keys in their declaration order, one piece sequence per
\* key, with the rate in units of 0.00001 USD per 1000 tokens.
cost_per_1k ==
    << [key |-> <<"gpt-4">>, cost |-> 4500],
       [key |-> <<"gpt-4", "o">>, cost |-> 3000],
       [key |-> <<"gpt-3.5-turbo">>, cost |-> 175],
       [key |-> <<"claude-2">>, cost |-> 800],
       [key |-> <<"gemini-pro">>, cost |-> 100] >>

\* The default estimate: 0.01 USD per 1000 tokens, in the same unit.
DefaultRate == 1000

\* str.lower() on one piece of a name.
LowerPiece(piece) ==
    CASE piece = "GPT-4" -> "gpt-4"
      [] piece = "O" -> "o"
      [] piece = "Claude-2" -> "claude-2"
      [] OTHER -> piece

\* str.lower()
Lower(str) == [i \in 1..Len(str) |-> LowerPiece(str[i])]

\* model.split("/")[-1] if "/" in model else model
BaseModel(model) ==
    IF HasSlash(model)
    THEN LET last == CHOOSE i \in 1..Len(model) :
                        /\ model[i] = Slash
                        /\ \A j \in (i + 1)..Len(model) : model[j] # Slash
         IN  SubSeq(model, last + 1, Len(model))
    ELSE model

\* key in str
Contains(key, str) ==
    \E i \in 0..(Len(str) - Len(key)) : SubSeq(str, i + 1, i + Len(key)) = key

EstimateCostLongestKey(model, tokens_used) ==
    LET base == Lower(BaseModel(model))
        hits == {k \in 1..Len(cost_per_1k) : Contains(cost_per_1k[k].key, base)}
    IN  IF hits = {} THEN tokens_used * DefaultRate
        ELSE LET k == CHOOSE h \in hits :
                        \A o \in hits :
                            Len(cost_per_1k[o].key) <= Len(cost_per_1k[h].key)
             IN  tokens_used * cost_per_1k[k].cost

\* _estimate_cost: the for loop returns at the first key found in the
\* lower-cased base name. The result is in units of 0.00000001 USD, which is
\* (tokens_used / 1000) * rate with the rate in units of 0.00001 USD.
_estimate_cost(model, tokens_used) ==
    LET base == Lower(BaseModel(model))
        hits == {k \in 1..Len(cost_per_1k) : Contains(cost_per_1k[k].key, base)}
    IN  IF hits = {} THEN tokens_used * DefaultRate
        ELSE LET k == CHOOSE h \in hits : \A o \in hits : h <= o
             IN  tokens_used * cost_per_1k[k].cost

\* LLMConfig.DEFAULT_MAX_TOKENS
DEFAULT_MAX_TOKENS == 1000

\* LLMConfig.DEFAULT_TEMPERATURE, in tenths (0.7)
DEFAULT_TEMPERATURE == 7

\* x or default, for an optional number: <<>> is None, <<v>> the value v.
OrDefault(x, default) == IF x = <<>> \/ x = <<0>> THEN default ELSE x[1]

\* max_tokens and temperature as the caller gives them (temperature in tenths).
CallParams ==
    {[max_tokens |-> <<>>, temperature |-> <<>>],
     [max_tokens |-> <<0>>, temperature |-> <<0>>],
     [max_tokens |-> <<500>>, temperature |-> <<2>>]}

\* Lines 240-242 and 465-467: the defaults are filled in.
Defaulted(params) ==
    [max_tokens |-> OrDefault(params.max_tokens, DEFAULT_MAX_TOKENS),
     temperature |-> OrDefault(params.temperature, DEFAULT_TEMPERATURE)]

\* The models complete() and stream_complete() are called with (<<>> is None).
CallModels == {<<>>, <<"claude-2">>, <<"custom", Slash, "foo">>}

\* llm_attempt is logged and acompletion called for the attempt's provider.
Attempting(g, attempt) ==
    LET provider == ProviderAt(providers, attempt)
        model_string == _get_model_string(providers, g.model, provider)
    IN  [g EXCEPT
           !.pc = "attempt", !.attempt = attempt,
           !.log = Append(@, [event |-> "llm_attempt", provider |-> provider,
                              attempt |-> attempt, model |-> model_string]),
           !.calls = Append(@, [model |-> model_string, provider |-> provider,
                                stream |-> FALSE,
                                max_tokens |-> g.passed.max_tokens,
                                temperature |-> g.passed.temperature])]

\* The try body raised kind: the except clause that takes it.
Failing(g, kind) ==
    LET provider == ProviderAt(providers, g.attempt)
        f == OnFailure(kind, g.attempt, Len(providers))
        h == [g EXCEPT !.failures = Append(@, Raised(kind, provider)),
                       !.sleeps = IF f.sleep THEN @ + 1 ELSE @,
                       !.log = Append(@, [event |-> f.event, provider |-> provider,
                                          attempt |-> g.attempt,
                                          model |-> <<kind>>])]
    IN  IF f.retry THEN [h EXCEPT !.pc = "retry_delay"]
        ELSE [h EXCEPT !.pc = "exhausted",
                       !.error = <<Raised(kind, provider)>>]

\* complete() up to its first await.
Complete(model, params) ==
    LET g == [IdleCall EXCEPT !.op = "complete", !.model = ModelOrDefault(model),
                              !.asked = params, !.passed = Defaulted(params)]
        end == AfterLoop(StrOf(<<>>))
    IN  /\ gw.pc = "idle"
        /\ gw' = IF providers = <<>>
                 THEN [g EXCEPT !.pc = end.pc, !.result = end.result,
                                !.error = end.error]
                 ELSE Attempting(g, 1)
        /\ UNCHANGED appVars
        /\ UNCHANGED providers

\* audit_model_usage: the model_usage event it logs.
audit_model_usage(model, provider, tokens_used, cost_usd, success) ==
    [event_type |-> "model_usage", model |-> model, provider |-> provider,
     tokens_used |-> tokens_used, cost_usd |-> cost_usd, success |-> success]

\* acompletion returns: parse, log_performance, audit_model_usage, return.
AttemptReturns(response) ==
    LET provider == ProviderAt(providers, gw.attempt)
    IN  /\ gw.pc = "attempt"
        /\ response \in Responses(gw.calls[Len(gw.calls)].model)
        /\ gw' = IF response.choices = 0
                 THEN Failing([gw EXCEPT !.returned = Append(@, gw.attempt)],
                              "IndexError")
                 ELSE [gw EXCEPT !.pc = "success",
                                 !.returned = Append(@, gw.attempt),
                                 !.result = <<_parse_response(response, provider)>>,
                                 !.tokens = response.total_tokens,
                                 !.cost = _estimate_cost(gw.model, response.total_tokens),
                                 !.usage = Append(@,
                                     audit_model_usage(
                                         gw.model, provider, response.total_tokens,
                                         _estimate_cost(gw.model, response.total_tokens),
                                         TRUE)),
                                 !.audits = @ + 1]
        /\ UNCHANGED appVars
        /\ UNCHANGED providers

\* acompletion raises.
AttemptFails(kind) ==
    /\ gw.pc = "attempt"
    /\ gw' = Failing(gw, kind)
    /\ UNCHANGED appVars
    /\ UNCHANGED providers

\* asyncio.sleep(RETRY_DELAY) is over: continue with the next provider.
GatewayRetry ==
    /\ gw.pc = "retry_delay"
    /\ gw' = Attempting(gw, NextAttempt(gw.attempt))
    /\ UNCHANGED appVars
    /\ UNCHANGED providers

\* delta.content of the chunks of a provider stream ("" when there is none).
Fragments == {"", "a", "b"}

\* The frames _stream_response sends: a content fragment, the end-of-stream
\* marker, the error marker.
ChunkFrame(content) == [kind |-> "chunk", data |-> content]
DoneFrame == [kind |-> "done", data |-> "[DONE]"]
ErrorFrame == [kind |-> "error", data |-> "stream_failed"]

FirstProviderBedrock(ps) == IF ps # <<>> THEN ps[1] ELSE "bedrock"

\* provider = self.providers[0] if self.providers else "azure"
FirstProvider(ps) == IF ps # <<>> THEN ps[1] ELSE "azure"

RelayNewestFirst(out, content) ==
    IF content # "" THEN <<ChunkFrame(content)>> \o out ELSE out

\* A chunk of the provider stream: stream_complete yields its content when
\* there is some, and _stream_response sends it as a frame.
Relay(out, content) ==
    IF content # "" THEN Append(out, ChunkFrame(content)) ELSE out

OnStreamErrorAsDone(out) == Append(out, DoneFrame)

\* stream_complete logs and re-raises; _stream_response sends the error marker.
OnStreamError(out) == Append(out, ErrorFrame)

\* _stream_response starts stream_complete, which calls acompletion with
\* stream=True for the first provider.
StreamComplete(model, params) ==
    LET provider == FirstProvider(providers)
        model_string == _get_model_string(providers, ModelOrDefault(model), provider)
    IN  /\ gw.pc = "idle"
        /\ gw' = [IdleCall EXCEPT
                    !.op = "stream", !.pc = "stream_open",
                    !.model = ModelOrDefault(model), !.attempt = 1,
                    !.asked = params, !.passed = Defaulted(params),
                    !.log = <<[event |-> "llm_stream_start", provider |-> provider,
                               attempt |-> 1, model |-> model_string]>>,
                    !.calls = <<[model |-> model_string, provider |-> provider,
                                 stream |-> TRUE,
                                 max_tokens |-> Defaulted(params).max_tokens,
                                 temperature |-> Defaulted(params).temperature]>>]
        /\ UNCHANGED appVars
        /\ UNCHANGED providers

\* acompletion returns the provider stream.
StreamOpens ==
    /\ gw.pc = "stream_open"
    /\ gw' = [gw EXCEPT !.pc = "streaming"]
    /\ UNCHANGED appVars
    /\ UNCHANGED providers

\* acompletion raises before any chunk.
StreamOpenFails(kind) ==
    /\ gw.pc = "stream_open"
    /\ gw' = [gw EXCEPT !.pc = "stream_failed",
                        !.failures = Append(@, Raised(kind, gw.calls[1].provider)),
                        !.out = OnStreamError(@)]
    /\ UNCHANGED appVars
    /\ UNCHANGED providers

\* The provider stream delivers a chunk.
StreamFragment(content) ==
    /\ gw.pc = "streaming"
    /\ Len(gw.produced) < MaxFragments
    /\ gw' = [gw EXCEPT !.produced = Append(@, content),
                        !.out = Relay(@, content)]
    /\ UNCHANGED appVars
    /\ UNCHANGED providers

\* The provider stream ends: llm_stream_complete is logged, [DONE] is sent.
StreamFinishes ==
    /\ gw.pc = "streaming"
    /\ gw' = [gw EXCEPT !.pc = "stream_done", !.out = Append(@, DoneFrame)]
    /\ UNCHANGED appVars
    /\ UNCHANGED providers

\* The provider stream raises after the chunks delivered so far.
StreamBreaks(kind) ==
    /\ gw.pc = "streaming"
    /\ gw' = [gw EXCEPT !.pc = "stream_failed",
                        !.failures = Append(@, Raised(kind, gw.calls[1].provider)),
                        !.out = OnStreamError(@)]
    /\ UNCHANGED appVars
    /\ UNCHANGED providers

\* The caller has the result or the exception; the gateway is free again.
CallEnds ==
    /\ gw.pc \in {"success", "exhausted", "stream_done", "stream_failed"}
    /\ gw' = IdleCall
    /\ UNCHANGED appVars
    /\ UNCHANGED providers

\* The provider arguments _get_model_string is called with.
ProviderArgs == ProviderNames \cup Falsy \cup {"custom"}

\* The model arguments _get_model_string is called with.
Models ==
    {<<"gpt-4">>, <<"gpt-3.5-turbo">>, <<"claude-2">>, <<"gemini-pro">>,
     <<"mistral">>, <<"custom", Slash, "foo">>, <<"azure", Slash, "gpt-4">>}

\* _get_model_string called on its own.
GetModelString(model, provider) ==
    /\ gw.pc = "idle"
    /\ gw' = [IdleCall EXCEPT !.op = "_get_model_string", !.model = model,
                              !.arg = provider,
                              !.resolved = _get_model_string(providers, model, provider)]
    /\ UNCHANGED appVars
    /\ UNCHANGED providers

\* The model names _estimate_cost is called with.
CostModels ==
    {<<"gpt-4">>, <<"gpt-4", "o">>, <<"GPT-4">>, <<"GPT-4", "O">>,
     <<"gpt-4", "-turbo">>, <<"gpt-3.5-turbo">>, <<"Claude-2">>,
     <<"gemini-pro">>, <<"mistral">>,
     <<"azure", Slash, "gpt-4", "o">>, <<"gpt-4", Slash, "mistral">>,
     <<"a", Slash, "gpt-4", Slash, "claude-2", "-v1">>,
     <<"vertex_ai", Slash, "my-", "gemini-pro">>}

\* The token counts _estimate_cost is called with.
TokenCounts == {0, 1, 1000, 2500}

\* _estimate_cost called on its own.
EstimateCost(model, tokens_used) ==
    /\ gw.pc = "idle"
    /\ gw' = [IdleCall EXCEPT !.op = "_estimate_cost", !.model = model,
                              !.tokens = tokens_used,
                              !.cost = _estimate_cost(model, tokens_used)]
    /\ UNCHANGED appVars
    /\ UNCHANGED providers

\* get_gateway(): the gateway built from the credentials of the environment.
InitGateway ==
    /\ Quiet
    /\ llm_enabled = TRUE
    /\ \E config \in SUBSET Credentials :
          environ = config /\ providers = _initialize_providers(config)

NextGateway ==
    \/ \E model \in CallModels, params \in CallParams : Complete(model, params)
    \/ \E model_string \in {gw.calls[i].model : i \in 1..Len(gw.calls)} :
         \E response \in Responses(model_string) : AttemptReturns(response)
    \/ \E kind \in ErrorKinds : AttemptFails(kind)
    \/ GatewayRetry
    \/ \E model \in CallModels, params \in CallParams : StreamComplete(model, params)
    \/ StreamOpens
    \/ \E kind \in ErrorKinds : StreamOpenFails(kind)
    \/ \E content \in Fragments : StreamFragment(content)
    \/ StreamFinishes
    \/ \E kind \in ErrorKinds : StreamBreaks(kind)
    \/ CallEnds
    \/ \E model \in Models, provider \in ProviderArgs : GetModelString(model, provider)
    \/ \E model \in CostModels, tokens_used \in TokenCounts :
         EstimateCost(model, tokens_used)

SpecGateway == InitGateway /\ [][NextGateway]_vars

\* A provider call in progress returns or raises (at the latest when its
\* REQUEST_TIMEOUT expires).
ProviderAnswers ==
    \/ \E model_string \in {gw.calls[i].model : i \in 1..Len(gw.calls)} :
         \E response \in Responses(model_string) : AttemptReturns(response)
    \/ \E kind \in ErrorKinds : AttemptFails(kind)

\* The gateway with provider calls that answer and sleeps that end.
SpecGatewayFair ==
    SpecGateway /\ WF_vars(ProviderAnswers) /\ WF_vars(GatewayRetry)

(* ------------------------ claims about the gateway --------------------- *)

IsComplete == gw.op = "complete"
Attempts == SelectSeq(gw.log, LAMBDA e : e.event = "llm_attempt")
N == Len(providers)

\* C11: when providers 1..k-1 fail with whatever kinds and provider k
\* succeeds, complete() returns provider k's result with provider = k, the
\* attempt records are exactly those of attempts 1..k in priority order, no
\* provider after k is called, and a failure reaches the caller only when the
\* last provider has failed.
C11_FailoverToFirstSuccess ==
    IsComplete =>
        /\ \A i \in 1..Len(Attempts) :
              Attempts[i].attempt = i /\ Attempts[i].provider = providers[i]
        /\ gw.pc = "success" =>
              /\ Len(Attempts) = gw.attempt
              /\ Len(gw.calls) = gw.attempt
              /\ Len(gw.failures) = gw.attempt - 1
              /\ gw.result[1].provider = providers[gw.attempt]
              /\ gw.result[1].model = gw.calls[gw.attempt].model
              /\ gw.error = <<>>
        /\ (gw.error # <<>> /\ N > 0) => Len(gw.failures) = N

\* The third of three providers succeeds after two failures of different kinds.
C11_Witness ==
    /\ IsComplete /\ gw.pc = "success" /\ gw.attempt = 3
    /\ gw.failures[1].type # gw.failures[2].type
    /\ gw.result[1].provider = "vertex"

\* C12: when the configured providers have all failed, complete() raises the
\* 'All LLM providers failed' ServiceUnavailableError carrying the failure of
\* the last provider.
C12_ExhaustionRaisesAllFailed ==
    (IsComplete /\ gw.pc = "exhausted" /\ N >= 1) =>
        gw.error = <<AllFailed(StrOf(<<gw.failures[Len(gw.failures)]>>))>>

\* C13: with no provider configured complete() always ends by raising the
\* same error, whatever its inputs: no result, no usage record, no provider
\* call.
C13_NoProvidersAlwaysRaises ==
    (IsComplete /\ N = 0) =>
        /\ gw.pc = "exhausted"
        /\ gw.error = <<AllFailed("None")>>
        /\ gw.result = <<>>
        /\ gw.audits = 0
        /\ gw.calls = <<>>

\* complete() called with a model of its own on a gateway without providers.
C13_Witness ==
    /\ IsComplete /\ N = 0 /\ gw.pc = "exhausted"
    /\ gw.model # DEFAULT_MODEL

\* C14: the error for no configured provider and the error for configured
\* providers that all failed differ in type at the gateway and in the
\* response of the chat endpoint.
C14_NoProvidersDistinguished ==
    (IsComplete /\ gw.pc = "exhausted" /\ N >= 1) =>
        /\ gw.error[1].type # AllFailed("None").type
        /\ LlmUnavailable(gw.error[1]) # LlmUnavailable(AllFailed("None"))

\* C15: in one complete() call the providers are called in priority order,
\* each at most once, and no more calls are made than providers configured.
C15_EachProviderOnceInOrder ==
    IsComplete =>
        /\ Len(gw.calls) <= N
        /\ \A i \in 1..Len(gw.calls) : gw.calls[i].provider = providers[i]
        /\ \A i, j \in 1..Len(gw.calls) :
              i # j => gw.calls[i].provider # gw.calls[j].provider

\* Three providers have been called and all have failed.
C15_Witness ==
    /\ IsComplete /\ gw.pc = "exhausted"
    /\ Len(gw.calls) = 3

Busy == gw.pc \in {"attempt", "retry_delay"}

\* C16: every complete() call ends in SUCCESS (a result, no error) or in
\* EXHAUSTED (an error, no result) when provider calls answer; a new provider
\* call is always for a later provider than the one before.
C16_Terminates ==
    /\ [](Busy => <>(gw.pc \in {"success", "exhausted"}))
    /\ [](gw.pc = "success" => (gw.result # <<>> /\ gw.error = <<>>))
    /\ [](gw.pc = "exhausted" => (gw.error # <<>> /\ gw.result = <<>>))
    /\ [][(Busy /\ gw'.pc = "attempt" /\ gw' # gw) => gw'.attempt > gw.attempt]_vars

\* A call that ended in success after a timeout and one more failure.
C16_Witness ==
    /\ IsComplete /\ gw.pc = "success"
    /\ Len(gw.failures) = 2
    /\ gw.failures[1].type = "Timeout"

IsStream == gw.op = "stream"

\* The frames of the fragments with content, in the order produced.
Delivered ==
    LET d == SelectSeq(gw.produced, LAMBDA c : c # "")
    IN  [i \in 1..Len(d) |-> ChunkFrame(d[i])]

\* C17: when the streaming provider fails after k >= 0 content fragments the
\* consumer has received exactly those k fragments in order, then the one
\* error marker; the provider call was issued once, for the first provider
\* only, and at no time is a delivered fragment repeated or retracted.
C17_FailedStreamKeepsFragments ==
    IsStream =>
        /\ gw.pc = "streaming" => gw.out = Delivered
        /\ gw.pc = "stream_failed" =>
              /\ gw.out = Delivered \o <<ErrorFrame>>
              /\ Len(gw.failures) = 1
        /\ Len(gw.calls) = 1
        /\ gw.calls[1].model = _get_model_string(providers, gw.model,
                                                 FirstProvider(providers))
        /\ gw.calls[1].provider = FirstProvider(providers)
        /\ gw.calls[1].stream
        /\ Len(gw.log) = 1

\* The stream fails after two fragments although a second provider is configured.
C17_Witness ==
    /\ IsStream /\ gw.pc = "stream_failed"
    /\ Len(gw.out) = 3
    /\ N >= 2

\* C18: a stream that ended carries exactly one terminal marker, in last
\* place: [DONE] after a normal end, the error marker after a failure, never
\* both; before the end there is no marker; the fragments are in the order
\* in which the provider produced them.
C18_OneTerminalMarker ==
    IsStream =>
        /\ \A i \in 1..(Len(gw.out) - 1) : gw.out[i].kind = "chunk"
        /\ gw.pc \in {"stream_open", "streaming"} =>
              \A i \in 1..Len(gw.out) : gw.out[i].kind = "chunk"
        /\ gw.pc = "stream_done" => gw.out[Len(gw.out)] = DoneFrame
        /\ gw.pc = "stream_failed" => gw.out[Len(gw.out)] = ErrorFrame
        /\ SelectSeq(gw.out, LAMBDA f : f.kind = "chunk") = Delivered

\* A stream of two different fragments and a chunk without content ends normally.
C18_Witness ==
    /\ IsStream /\ gw.pc = "stream_done"
    /\ Len(gw.out) = 3
    /\ gw.out[1] # gw.out[2]
    /\ Len(gw.produced) = 3

IsResolve == gw.op = "_get_model_string"

\* C20: _get_model_string(model, provider) returns a model that contains "/"
\* unchanged, whatever the provider; otherwise the alias-table entry of
\* (provider, model) when there is one and provider + "/" + model when there
\* is none, an unspecified provider being the first configured provider.
C20_ModelStringResolution ==
    IsResolve =>
        /\ HasSlash(gw.model) => gw.resolved = gw.model
        /\ (~HasSlash(gw.model) /\ (gw.arg \notin Falsy \/ N > 0)) =>
              LET p == IF gw.arg \in Falsy THEN providers[1] ELSE gw.arg
              IN  IF p \in DOMAIN provider_models
                     /\ gw.model \in DOMAIN provider_models[p]
                  THEN gw.resolved = provider_models[p][gw.model]
                  ELSE gw.resolved = <<p, "/">> \o gw.model
        /\ (gw.model = <<"gpt-4">> /\ gw.arg = "azure") =>
              gw.resolved = <<"azure", "/", "gpt-4">>
        /\ (gw.model = <<"custom", "/", "foo">> /\ gw.arg = "azure") =>
              gw.resolved = <<"custom", "/", "foo">>
        /\ (gw.model = <<"mistral">> /\ gw.arg = "vertex") =>
              gw.resolved = <<"vertex", "/", "mistral">>

\* An alias resolved for the first configured provider, none being given.
C20_Witness ==
    /\ IsResolve
    /\ gw.arg \in Falsy
    /\ N >= 1 /\ providers[1] = "bedrock"
    /\ gw.model = <<"claude-2">>
    /\ gw.resolved = <<"bedrock", "/", "anthropic.claude-v2">>

(* ------------- claims about the budget record and the bucket ----------- *)

\* C22: between two resets of a principal's record used never decreases,
\* whatever record_usage, check_budget and get_usage_stats calls are made
\* with non-negative token counts, and used is never negative.
C22_UsedMonotoneBetweenResets ==
    /\ [](\A u \in DOMAIN budgets : budgets[u].used >= 0)
    /\ [][\A u \in DOMAIN budgets :
            (u \in DOMAIN budgets' /\ budgets'[u].reset_at = budgets[u].reset_at)
                => budgets'[u].used >= budgets[u].used]_vars

\* A second recording on top of an earlier one, no reset in between.
C22_Witness ==
    /\ lastCall.op = "record_usage"
    /\ LastSeen
    /\ lastCall.before[LastUser].used > 0
    /\ budgets[LastUser].used > lastCall.before[LastUser].used
    /\ budgets[LastUser].reset_at = lastCall.before[LastUser].reset_at

\* C23: record_usage(principal, n) adds exactly n to used, on a record
\* created with used = 0 when there was none, also beyond the limit; then
\* get_usage_stats reports tokens_used_today = used and tokens_remaining =
\* limit - used.
C23_RecordAddsExactly ==
    /\ lastCall.op = "record_usage" =>
          /\ LastUser \in DOMAIN budgets
          /\ budgets[LastUser].used =
                (IF LastSeen THEN lastCall.before[LastUser].used ELSE 0) + lastCall.arg
          /\ budgets[LastUser].limit =
                (IF LastSeen THEN lastCall.before[LastUser].limit ELSE DailyLimit)
          /\ budgets[LastUser].reset_at =
                (IF LastSeen THEN lastCall.before[LastUser].reset_at
                 ELSE lastCall.at + Day)
          /\ get_usage_stats(budgets, LastUser).tokens_used_today
                = budgets[LastUser].used
          /\ get_usage_stats(budgets, LastUser).tokens_remaining
                = budgets[LastUser].limit - budgets[LastUser].used
    /\ (lastCall.op = "get_usage_stats" /\ LastUser \in DOMAIN budgets) =>
          /\ lastCall.info.tokens_used_today = budgets[LastUser].used
          /\ lastCall.info.tokens_remaining
                = budgets[LastUser].limit - budgets[LastUser].used

\* A recording that takes used beyond the limit.
C23_Witness ==
    /\ lastCall.op = "record_usage"
    /\ lastCall.arg > 0
    /\ budgets[LastUser].used > budgets[LastUser].limit

\* C24: get_usage_stats changes nothing: for an unseen principal it returns
\* used 0 and remaining = limit = the daily limit and creates no record, for
\* a known one it returns the stored values and leaves used, limit and
\* reset_at as they are.
C24_UsageStatsReadOnly ==
    lastCall.op = "get_usage_stats" =>
        /\ budgets = lastCall.before
        /\ ~LastSeen =>
              /\ LastUser \notin DOMAIN budgets
              /\ lastCall.info.tokens_used_today = 0
              /\ lastCall.info.tokens_remaining = DailyLimit
              /\ lastCall.info.daily_limit = DailyLimit
        /\ LastSeen =>
              /\ lastCall.info.tokens_used_today = lastCall.before[LastUser].used
              /\ lastCall.info.daily_limit = lastCall.before[LastUser].limit

\* Statistics asked for a principal never seen before, later than the start.
C24_Witness ==
    /\ lastCall.op = "get_usage_stats"
    /\ ~LastSeen
    /\ lastCall.at > 0

\* The bucket as the refill step of the last check_rate_limit left it.
LastRefilled ==
    Min(Capacity * Window,
        lastCall.before.tokens
            + (lastCall.at - lastCall.before.last_refill) * Capacity)

\* C25: after the refill check_rate_limit allows iff tokens >= cost; an
\* allowed call lowers tokens by exactly cost, a denied call leaves the
\* refilled value; info reports limit = capacity, reset_in_seconds = 60 and
\* tokens_remaining = the integer part of the tokens after the decision.
C25_DecisionAndInfo ==
    lastCall.op = "check_rate_limit" =>
        /\ lastCall.allowed <=> (LastRefilled >= lastCall.arg * Window)
        /\ buckets[LastUser].tokens =
              (IF lastCall.allowed THEN LastRefilled - lastCall.arg * Window
               ELSE LastRefilled)
        /\ lastCall.info.limit = Capacity
        /\ lastCall.info.reset_in_seconds = 60
        /\ lastCall.info.tokens_remaining * Window <= buckets[LastUser].tokens
        /\ buckets[LastUser].tokens < (lastCall.info.tokens_remaining + 1) * Window

\* A check denied on a bucket that holds a fraction of a token.
C25_Witness ==
    /\ lastCall.op = "check_rate_limit"
    /\ ~lastCall.allowed
    /\ lastCall.arg = 1
    /\ buckets[LastUser].tokens > 0

(* --------------------- more claims about the gateway ------------------- *)

\* The credentials the claim requires of each provider, and the priority order.
Required ==
    [p \in {"azure", "bedrock", "vertex"} |->
       IF p = "azure" THEN {"AZURE_OPENAI_API_KEY", "AZURE_OPENAI_ENDPOINT"}
       ELSE IF p = "bedrock" THEN {"AWS_ACCESS_KEY_ID", "AWS_SECRET_ACCESS_KEY"}
       ELSE {"GCP_PROJECT_ID"}]

Rank(p) == IF p = "azure" THEN 1 ELSE IF p = "bedrock" THEN 2 ELSE 3

\* C26: the provider list holds exactly the providers whose credentials are
\* all present, in the order azure, bedrock, vertex; no call changes it, and
\* the provider calls of every request follow it.
C26_ProviderListFromCredentials ==
    /\ [](/\ \A p \in DOMAIN Required :
               (\E i \in 1..N : providers[i] = p) <=> (Required[p] \subseteq environ)
          /\ \A i, j \in 1..N : i < j => Rank(providers[i]) < Rank(providers[j])
          /\ IsComplete =>
                \A i \in 1..Len(gw.calls) : gw.calls[i].provider = providers[i]
          /\ (IsStream /\ N > 0) => gw.calls[1].provider = providers[1])
    /\ [][providers' = providers]_vars

\* A second attempt is under way on a gateway that has half of the azure
\* credentials and all of the others.
C26_Witness ==
    /\ "AZURE_OPENAI_API_KEY" \in environ
    /\ "AZURE_OPENAI_ENDPOINT" \notin environ
    /\ providers = <<"bedrock", "vertex">>
    /\ IsComplete /\ gw.pc = "attempt" /\ gw.attempt = 2

\* C27 (as stated): with no provider configured complete() still resolves the
\* model against 'azure', makes one provider call, and raises the failure of
\* that call.
C27_NoProvidersStillCalls ==
    (IsComplete /\ N = 0 /\ gw.pc = "exhausted") =>
        /\ Len(gw.calls) = 1
        /\ gw.calls[1].provider = "azure"
        /\ gw.error = <<gw.failures[1]>>

\* The model of a call resolved against the label azure.
AgainstAzure(model) ==
    IF HasSlash(model) THEN model
    ELSE IF model \in DOMAIN provider_models["azure"]
         THEN provider_models["azure"][model]
    ELSE <<"azure", "/">> \o model

\* C27 (amended): with no provider configured complete() resolves nothing and
\* calls no provider: it raises the 'All LLM providers failed' error with
\* last error None. stream_complete() is what resolves the model against the
\* label 'azure' and makes one provider call; when that call fails its
\* failure is what ends the stream.
C27_NoProvidersCompleteVsStream ==
    N = 0 =>
        /\ IsComplete =>
              /\ gw.pc = "exhausted"
              /\ gw.calls = <<>> /\ gw.log = <<>> /\ gw.failures = <<>>
              /\ gw.error = <<AllFailed("None")>>
        /\ IsStream =>
              /\ Len(gw.calls) = 1
              /\ gw.calls[1].provider = "azure"
              /\ gw.calls[1].model = AgainstAzure(gw.model)
              /\ gw.pc = "stream_failed" =>
                    /\ Len(gw.failures) = 1
                    /\ gw.failures[1].from = "azure"
                    /\ gw.out[Len(gw.out)] = ErrorFrame

\* A stream for claude-2 on a gateway without providers fails.
C27_Witness ==
    /\ N = 0 /\ IsStream /\ gw.pc = "stream_failed"
    /\ gw.model = <<"claude-2">>
    /\ gw.calls[1].model = <<"azure", "/", "claude-2">>

\* C28: complete() and stream_complete() pass to the provider call the
\* max_tokens and temperature the caller gave, 0 included, and the
\* configured defaults only where the caller gave none.
C28_ExplicitValuesPassed ==
    gw.op \in {"complete", "stream"} =>
        \A i \in 1..Len(gw.calls) :
            /\ gw.calls[i].max_tokens =
                  (IF gw.asked.max_tokens = <<>> THEN DEFAULT_MAX_TOKENS
                   ELSE gw.asked.max_tokens[1])
            /\ gw.calls[i].temperature =
                  (IF gw.asked.temperature = <<>> THEN DEFAULT_TEMPERATURE
                   ELSE gw.asked.temperature[1])

\* C29: in a complete() call the retry delay is waited once between each
\* failed attempt and the next attempt, and at no other time: not before the
\* first attempt, not after a success, not after the last provider failed.
C29_DelayBetweenAttemptsOnly ==
    IsComplete =>
        /\ gw.pc = "attempt" => gw.sleeps = Len(gw.calls) - 1
        /\ gw.pc = "retry_delay" =>
              (gw.sleeps = Len(gw.calls) /\ Len(gw.calls) < N)
        /\ gw.pc \in {"success", "exhausted"} =>
              gw.sleeps = (IF gw.calls = <<>> THEN 0 ELSE Len(gw.calls) - 1)

\* The third provider has failed as well: two delays were waited, not three.
C29_Witness ==
    /\ IsComplete /\ gw.pc = "exhausted"
    /\ Len(gw.failures) = 3
    /\ gw.sleeps = 2

\* An _estimate_cost call has returned.
IsEstimate == gw.op = "_estimate_cost"

\* The lower-cased part of the model name after its last '/'.
BaseName == Lower(BaseModel(gw.model))

\* The keys of the cost table that the base name contains.
KeysFound == {k \in 1..Len(cost_per_1k) : Contains(cost_per_1k[k].key, BaseName)}

\* C21: for every key K of the cost table and every model whose base name
\* contains K case-insensitively, _estimate_cost(model, 1000) is K's rate per
\* 1000 tokens (a model named gpt-4o is priced at the gpt-4o rate); a model
\* whose base name contains no key gets the default rate.
C21_CostOfContainedKey ==
    (IsEstimate /\ gw.tokens = 1000) =>
        /\ \A k \in KeysFound : gw.cost = 1000 * cost_per_1k[k].cost
        /\ KeysFound = {} => gw.cost = 1000 * DefaultRate
        /\ Lower(gw.model) = <<"gpt-4", "o">> => gw.cost = 1000 * 3000

\* C30: _estimate_cost scans the keys in the declaration order gpt-4, gpt-4o,
\* gpt-3.5-turbo, claude-2, gemini-pro against the lower-cased base name (the
\* part after the last '/') and uses the rate of the first key that is a
\* substring: the result is tokens_used/1000 times that rate, or times the
\* default rate 0.01 when no key matches. The audit record of a successful
\* complete() carries that estimate for the requested model.
C30_FirstKeyInOrderWins ==
    /\ [k \in 1..Len(cost_per_1k) |-> cost_per_1k[k].key] =
          << <<"gpt-4">>, <<"gpt-4", "o">>, <<"gpt-3.5-turbo">>,
             <<"claude-2">>, <<"gemini-pro">> >>
    /\ (IsEstimate \/ (IsComplete /\ gw.pc = "success")) =>
          \/ /\ KeysFound = {}
             /\ gw.cost = gw.tokens * 1000
          \/ \E k \in KeysFound :
                /\ \A j \in 1..(k - 1) : j \notin KeysFound
                /\ gw.cost = gw.tokens * cost_per_1k[k].cost
    /\ IsEstimate =>
          /\ gw.model = <<"gpt-4", Slash, "mistral">> => gw.cost = gw.tokens * 1000
          /\ gw.model = <<"GPT-4", "O">> => gw.cost = gw.tokens * 4500
          /\ gw.model = <<"a", Slash, "gpt-4", Slash, "claude-2", "-v1">> =>
                gw.cost = gw.tokens * 800

\* gpt-4o behind a provider prefix, 2500 tokens: priced by the key gpt-4.
C30_Witness ==
    /\ IsEstimate
    /\ gw.model = <<"azure", Slash, "gpt-4", "o">>
    /\ gw.tokens = 2500
    /\ gw.cost = 2500 * 4500
    /\ KeysFound = {1, 2}

\* C33: a rate bucket exists only once its principal has been checked, and it
\* is created full: the first check_rate_limit of a principal is allowed
\* whenever cost <= capacity and leaves tokens = capacity - cost.
C33_FirstCheckOnFullBucket ==
    /\ [](\A u \in DOMAIN buckets : lastCall.op = "check_rate_limit")
    /\ [][\A u \in ApiUsers :
            (u \notin DOMAIN buckets /\ u \in DOMAIN buckets') =>
                /\ lastCall'.op = "check_rate_limit" /\ lastCall'.user = u
                /\ lastCall'.before.tokens = _get_limit * Window
                /\ lastCall'.arg <= _get_limit => lastCall'.allowed
                /\ lastCall'.allowed =>
                      /\ buckets'[u].tokens = (_get_limit - lastCall'.arg) * Window
                      /\ lastCall'.info.tokens_remaining = _get_limit - lastCall'.arg]_vars

\* The first check of alice, some time after the limiter was constructed,
\* asks for the whole capacity and gets it.
C33_Witness ==
    /\ lastCall.op = "check_rate_limit" /\ lastCall.user = "alice"
    /\ lastCall.arg = _get_limit /\ lastCall.allowed
    /\ lastCall.at > 0
    /\ lastCall.before = [tokens |-> _get_limit * Window, last_refill |-> lastCall.at]
    /\ buckets["alice"] = [tokens |-> 0, last_refill |-> lastCall.at]

\* C37: check_budget reserves nothing. A call on a known record that is not
\* due for its reset changes nothing at all; a call that creates or resets
\* the record leaves used = 0; allowed or denied, the decision is
\* limit - used >= estimate on the used it leaves. Hence a check_budget that
\* follows a check_budget of the same principal with the same estimate, with
\* no record_usage and no reset in between, returns the same decision.
C37_CheckBudgetReservesNothing ==
    /\ [](lastCall.op = "check_budget" =>
            /\ (LastSeen /\ ~LastDue) => budgets = lastCall.before
            /\ ~(LastSeen /\ ~LastDue) => budgets[LastUser].used = 0
            /\ lastCall.allowed =
                  (budgets[LastUser].limit - budgets[LastUser].used >= lastCall.arg))
    /\ [][(/\ lastCall.op = "check_budget"
           /\ lastCall'.op = "check_budget"
           /\ lastCall'.user = lastCall.user
           /\ lastCall'.arg = lastCall.arg
           /\ resets' = resets)
          => lastCall'.allowed = lastCall.allowed]_vars

\* A denied check half a day after an allowed one, on a record in use: the
\* denial took nothing and the record is as it was.
C37_Witness ==
    /\ lastCall.op = "check_budget"
    /\ ~lastCall.allowed
    /\ lastCall.arg > 0
    /\ lastCall.at > 0
    /\ LastSeen /\ ~LastDue
    /\ lastCall.before[LastUser].used > 0
    /\ budgets = lastCall.before

\* C35: whatever error ends the non-streaming gateway call (the last
\* provider's own error of any type, or the error of a gateway without
\* providers), the chat endpoint answers the same 503 llm_unavailable; then no
\* usage is recorded, no 'completed' audit event is emitted, the budget record
\* is not charged, and the step of the failure leaves the bucket alone: the
\* rate token taken at admission stays taken. No other outcome answers 503.
C35_EveryFailureIs503 ==
    IsFlowStep =>
        /\ LastReq.pc = "unavailable" =>
              /\ LastReq.error \in Failures \cup {"ServiceUnavailableError"}
              /\ LastReq.response = <<[status |-> 503, error |-> "llm_unavailable"]>>
              /\ LastReq.recorded = <<>>
              /\ LastReq.audited = <<>>
              /\ LastReq.events[1] = "rate_ok"
              /\ lastCall.touch \notin {"charged", "other"}
              /\ lastCall.op = "provider_fails" =>
                    (lastCall.took = 0 /\ lastCall.touch = "none")
              /\ lastCall.op = "chat_endpoint" => lastCall.took = Window
        /\ LastReq.pc # "unavailable" =>
              \A i \in 1..Len(LastReq.response) : LastReq.response[i].status # 503

\* The second and last provider fails with a rate limit error of its own.
C35_Witness ==
    /\ lastCall.op = "provider_fails"
    /\ LastReq.pc = "unavailable"
    /\ LastReq.attempt = 2
    /\ LastReq.error = "RateLimitError"
    /\ LastReq.user \in DOMAIN buckets
    /\ buckets[LastReq.user].tokens < _get_limit * Window

\* C36: a complete() call that ends in success has emitted exactly one
\* model_usage record (token counts, estimated cost, success = true) and
\* returns a result that carries the same estimated cost; a call that ends
\* exhausted has emitted one model_usage record with success = false.
C36_OneFinalUsageRecord ==
    IsComplete =>
        /\ gw.pc = "success" =>
              /\ Len(gw.usage) = 1
              /\ gw.usage[1].success
              /\ gw.usage[1].tokens_used = gw.result[1].tokens_used
              /\ "cost_usd" \in DOMAIN gw.result[1]
              /\ gw.result[1].cost_usd = gw.usage[1].cost_usd
        /\ gw.pc = "exhausted" =>
              /\ Len(gw.usage) = 1
              /\ ~gw.usage[1].success

\* C38: in one complete() call at most one provider call returns a response:
\* once a response has come back no further provider is called, also when
\* parsing the response fails.
C38_NoCallAfterAResponse ==
    IsComplete =>
        /\ Len(gw.returned) <= 1
        /\ gw.returned # <<>> => Len(gw.calls) = gw.returned[1]

\* The part of a dict that belongs to principal q.
Own(f, q) == [x \in DOMAIN f \cap {q} |-> f[x]]

\* C34: an operation of one principal leaves the bucket and the budget
\* record of every other principal as they are (none is created, changed or
\* removed), and what it answers and leaves behind is what it would answer
\* and leave behind if the other principals had never called: the results a
\* principal sees do not depend on how its calls interleave with the others'.
C34_PrincipalsIsolated ==
    /\ [][\A q \in Users :
            lastCall'.user # q =>
                /\ Own(buckets', q) = Own(buckets, q)
                /\ Own(budgets', q) = Own(budgets, q)]_vars
    /\ [](lastCall.op = "check_budget" =>
            LET alone == check_budget(Own(lastCall.before, LastUser), LastUser,
                                      lastCall.at, lastCall.arg)
            IN  /\ lastCall.allowed = alone.allowed
                /\ lastCall.info = alone.info
                /\ Own(budgets, LastUser) = alone.budgets)
    /\ [](lastCall.op = "record_usage" =>
            Own(budgets, LastUser) =
                record_usage(Own(lastCall.before, LastUser), LastUser,
                             lastCall.at, lastCall.arg))
    /\ [](lastCall.op = "get_usage_stats" =>
            lastCall.info = get_usage_stats(Own(lastCall.before, LastUser), LastUser))
    /\ [](lastCall.op = "check_rate_limit" =>
            LET alone == check_rate_limit(lastCall.before, lastCall.at, lastCall.arg)
            IN  /\ lastCall.allowed = alone.allowed
                /\ buckets[LastUser] = alone.bucket)

\* bob is denied by the rate limiter half a window after the start; the
\* bucket alice emptied at the start and the usage she recorded are untouched.
C34_Witness ==
    /\ lastCall.op = "check_rate_limit" /\ lastCall.user = "bob"
    /\ ~lastCall.allowed
    /\ "alice" \in DOMAIN buckets
    /\ buckets["alice"].last_refill = 0
    /\ buckets["alice"].tokens = (_get_limit - 2) * Window
    /\ lastCall.at = 30
    /\ buckets["bob"].last_refill = 30
    /\ "alice" \in DOMAIN budgets /\ budgets["alice"].used > 0
    /\ "bob" \in DOMAIN budgets /\ budgets["bob"].used = 0

(* --------------------- claims about the refill ------------------------- *)

IsCheck64 == lastCall.op = "check_rate_limit"

\* C31: a check made e seconds after the previous one first sets tokens to
\* min(capacity, tokens + (e/60)*capacity) and last_refill to the current
\* time, whether it is then allowed or denied; the refill never lowers the
\* tokens and never takes them above the capacity; after 60 idle seconds the
\* bucket is full whatever its level was, after 30 idle seconds half the
\* capacity has been added (up to the cap), after none nothing.
C31_ProportionalCappedRefill ==
    IsCheck64 =>
        LET limit == LimitOf(environ)
            e == lastCall.at - lastCall.before.last_refill
            was == lastCall.before.tokens
            is == lastCall.refilled.tokens
        IN  /\ is = FMin(F64(limit), FAdd(was, FMul(FDiv60(e), limit)))
            /\ lastCall.refilled.last_refill = lastCall.at
            /\ buckets[LastUser].last_refill = lastCall.at
            /\ ~lastCall.allowed => buckets[LastUser] = lastCall.refilled
            /\ FGe(F64(limit), is) /\ FGe(is, was)
            /\ e >= 60 => is = F64(limit)
            /\ e = 30 => is = FMin(F64(limit), FAdd(was, <<limit * (2 ^ 17), 0, 0>>))
            /\ e = 0 => is = was

\* A bucket of capacity 1, emptied, is half full 30 seconds later: the check
\* is denied and the refill is kept.
C31_Witness ==
    /\ IsCheck64 /\ ~lastCall.allowed
    /\ LimitOf(environ) = 1
    /\ lastCall.before = [tokens |-> F64(0), last_refill |-> 0]
    /\ lastCall.at = 30
    /\ buckets["alice"] = [tokens |-> <<2 ^ 17, 0, 0>>, last_refill |-> 30]

\* C32: a check made at least one full window after the first denial of a
\* run of denials is allowed, however many denied checks were made in
\* between.
C32_ReadmittedAfterOneWindow ==
    (/\ IsCheck64
     /\ lastCall.denied_before # <<>>
     /\ lastCall.at >= lastCall.denied_before[1] + Window)
        => lastCall.allowed

\* C39: with no allowed check in between and the cap not reached, the
\* refills of a run of checks leave the tokens that one refill at the time
\* of the last check leaves.
C39_RefillPathIndependent ==
    LET single == Refill64(lastCall.anchor_before, lastCall.at, LimitOf(environ))
    IN  (IsCheck64 /\ single.tokens # F64(LimitOf(environ)))
            => lastCall.refilled = single

====
